---- MODULE Spec2Model ----
(***************************************************************************)
(* Model of src/src/CombineClasses.ts: the combinability predicate         *)
(* (typeSetsCanBeCombined, canBeCombined, isPartOfClique), the greedy      *)
(* clique-building loop of combineClasses and the property merger          *)
(* (makeCliqueClass / makePropertyType).                                   *)
(*                                                                         *)
(* A Type is modelled by the ordered list of its members: a non-union type *)
(* is a one-element list, a union lists its alternatives (the null         *)
(* primitive among them when it is nullable).  A member is a record with   *)
(* its kind; a string member also carries its optional enum histogram.     *)
(* A ClassType is a record of its property map and its isFixed flag; a     *)
(* class's identity is its index in the graph's list of classes.           *)
(***************************************************************************)
EXTENDS Integers, Sequences, FiniteSets, TLC

VARIABLES
    graph,              \* the TypeGraph: the ordered list of its class types
    unprocessedClasses, \* combineClasses: classes not yet assigned (node indices)
    classesLeft,        \* combineClasses: the leftover list of the current round
    clique,             \* combineClasses: the clique under construction
    cliques,            \* combineClasses: the cliques emitted so far
    i,                  \* combineClasses: the for loop's index (0-based, as in the code)
    pc,                 \* position in combineClasses / in the caller
    run,                \* which call of combineClasses is executing (1 or 2)
    old,                \* the calls completed so far: input graph, cliques, merged nodes
    result              \* the values returned by the calls of canBeCombined

vars == <<graph, unprocessedClasses, classesLeft, clique, cliques, i, pc, run, old, result>>

(***************************************************************************)
(* Bounds of the model.                                                    *)
(***************************************************************************)
MaxClasses == 3
MaxLoopClasses == 4

(***************************************************************************)
(* REQUIRED_OVERLAP = 3 / 4, kept as an exact fraction.                    *)
(***************************************************************************)
REQUIRED_OVERLAP_NUM == 3
REQUIRED_OVERLAP_DEN == 4

(***************************************************************************)
(* Types.                                                                  *)
(***************************************************************************)
PrimitiveType(kind) == [kind |-> kind, hasEnum |-> FALSE, enumCases |-> <<>>]

StringType(enumCases) == [kind |-> "string", hasEnum |-> TRUE, enumCases |-> enumCases]

ArrayType(items) == [kind |-> "array", hasEnum |-> FALSE, enumCases |-> <<>>, items |-> items]

NullT == PrimitiveType("null")
IntT == PrimitiveType("integer")
StrT == PrimitiveType("string")
EnumRed == StringType("red" :> 2)
EnumBlueRed == StringType("blue" :> 5 @@ "red" :> 1)
ArrInt == ArrayType("integer")
ArrStr == ArrayType("string")

IsStringType(t) == t.kind = "string"

\* nonNullTypeCases (Type.ts): the non-null alternatives of a type, in order.
nonNullTypeCases(t) == SelectSeq(t, LAMBDA m : m.kind # "null")

Max(S) == CHOOSE x \in S : \A y \in S : y <= x

(***************************************************************************)
(* typeSetsCanBeCombined.  s2ByKind = Map(s2.map(t => [t.kind, t])): for a *)
(* kind that occurs several times in s2 the last entry wins.               *)
(***************************************************************************)
typeSetsCanBeCombined(s1, s2) ==
    IF Len(s1) # Len(s2) THEN FALSE
    ELSE \A j \in 1..Len(s1) :
            LET kind == s1[j].kind
                idx == {k \in 1..Len(s2) : s2[k].kind = kind}
            IN  IF idx = {} THEN FALSE
                ELSE IF s1[j] = s2[Max(idx)] THEN TRUE
                ELSE IF kind = "string" THEN TRUE
                ELSE FALSE

(***************************************************************************)
(* canBeCombined.                                                          *)
(***************************************************************************)
Size(p) == Cardinality(DOMAIN p)

\* The iteration order of a property map (the names are kept in one fixed order).
NameOrder == <<"a", "b", "c", "d">>

KeySeq(p) == SelectSeq(NameOrder, LAMBDA n : n \in DOMAIN p)

\* The gate with its first comparison only: p1.size < p2.size * REQUIRED_OVERLAP.
SizeGateOneSided(p1, p2) ==
    Size(p1) * REQUIRED_OVERLAP_DEN < Size(p2) * REQUIRED_OVERLAP_NUM

\* line 34: p1.size < p2.size * REQUIRED_OVERLAP || p2.size < p1.size * REQUIRED_OVERLAP
SizeGateRejects(p1, p2) ==
    \/ Size(p1) * REQUIRED_OVERLAP_DEN < Size(p2) * REQUIRED_OVERLAP_NUM
    \/ Size(p2) * REQUIRED_OVERLAP_DEN < Size(p1) * REQUIRED_OVERLAP_NUM

Larger(p1, p2) == IF Size(p1) > Size(p2) THEN p1 ELSE p2

Smaller(p1, p2) == IF Size(p1) > Size(p2) THEN p2 ELSE p1

\* Math.floor(larger.size * REQUIRED_OVERLAP)
MinOverlapFloor(larger) ==
    (Size(larger) * REQUIRED_OVERLAP_NUM) \div REQUIRED_OVERLAP_DEN

\* Math.ceil(larger.size * REQUIRED_OVERLAP)
MinOverlap(larger) ==
    (Size(larger) * REQUIRED_OVERLAP_NUM + REQUIRED_OVERLAP_DEN - 1) \div REQUIRED_OVERLAP_DEN

MaxFaults(p1, p2) == Size(Smaller(p1, p2)) - MinOverlap(Larger(p1, p2))

\* smaller.forEach(...): returning false from the callback ends the iteration.
RECURSIVE WalkSmaller(_, _, _, _, _, _)
WalkSmaller(keys, k, larger, maxFaults, faults, commonProperties) ==
    IF k > Len(keys) THEN [faults |-> faults, commonProperties |-> commonProperties]
    ELSE IF keys[k] \in DOMAIN larger
         THEN WalkSmaller(keys, k + 1, larger, maxFaults, faults,
                          Append(commonProperties, keys[k]))
    ELSE IF faults + 1 > maxFaults
         THEN [faults |-> faults + 1, commonProperties |-> commonProperties]
    ELSE WalkSmaller(keys, k + 1, larger, maxFaults, faults + 1, commonProperties)

\* for (const name of commonProperties) { ... }
RECURSIVE CheckCommon(_, _, _, _)
CheckCommon(commonProperties, k, smaller, larger) ==
    IF k > Len(commonProperties) THEN "true"
    ELSE LET name == commonProperties[k] IN
         IF name \notin DOMAIN smaller \/ name \notin DOMAIN larger
         THEN "Both of these should have this property"
         ELSE LET tsCases == nonNullTypeCases(smaller[name])
                  tlCases == nonNullTypeCases(larger[name])
              IN  IF /\ tsCases # <<>>
                     /\ tlCases # <<>>
                     /\ ~typeSetsCanBeCombined(tsCases, tlCases)
                  THEN "false"
                  ELSE CheckCommon(commonProperties, k + 1, smaller, larger)

\* The outcome of canBeCombined(c1, c2): "true", "false", or the message of
\* the assertion or panic that ends it.
canBeCombinedOutcome(c1, c2) ==
    LET p1 == c1.properties
        p2 == c2.properties
    IN  IF SizeGateRejects(p1, p2) THEN "false"
        ELSE LET larger == Larger(p1, p2)
                 smaller == Smaller(p1, p2)
                 maxFaults == MaxFaults(p1, p2)
             IN  IF maxFaults < 0 THEN "Max faults negative"
                 ELSE LET w == WalkSmaller(KeySeq(smaller), 1, larger, maxFaults, 0, <<>>)
                      IN  IF w.faults > maxFaults THEN "false"
                          ELSE CheckCommon(w.commonProperties, 1, smaller, larger)

canBeCombined(c1, c2) == canBeCombinedOutcome(c1, c2) = "true"

(***************************************************************************)
(* Inputs of the predicate: record types over the names of NameOrder; the  *)
(* field "a" ranges over all types with at most two members, the other     *)
(* fields are integers.                                                    *)
(***************************************************************************)
Names == {NameOrder[k] : k \in 1..Len(NameOrder)}

Atoms == {NullT, IntT, StrT, EnumRed, EnumBlueRed, ArrInt, ArrStr}

FieldTypes ==
    {<<x>> : x \in Atoms} \cup {<<xy[1], xy[2]>> : xy \in {z \in Atoms \X Atoms : z[1] # z[2]}}

ClassOf(names, t, fixed) ==
    [properties |-> [n \in names |-> IF n = "a" THEN t ELSE <<IntT>>], isFixed |-> fixed]

PredClasses == {ClassOf(ns, t, FALSE) : ns \in SUBSET Names, t \in FieldTypes}

NoCall == [c1c2 |-> "none", c2c1 |-> "none"]

InitPred ==
    /\ graph \in [1..2 -> PredClasses]
    /\ unprocessedClasses = <<>>
    /\ classesLeft = <<>>
    /\ clique = <<>>
    /\ cliques = <<>>
    /\ i = 0
    /\ pc = "call"
    /\ run = 0
    /\ old = <<>>
    /\ result = NoCall

\* The two calls canBeCombined(a, b) and canBeCombined(b, a).
CallCanBeCombined ==
    /\ pc = "call"
    /\ result' = [c1c2 |-> canBeCombinedOutcome(graph[1], graph[2]),
                  c2c1 |-> canBeCombinedOutcome(graph[2], graph[1])]
    /\ pc' = "called"
    /\ UNCHANGED <<graph, unprocessedClasses, classesLeft, clique, cliques, i, run, old>>

NextPred == CallCanBeCombined

SpecPred == InitPred /\ [][NextPred]_vars

(***************************************************************************)
(* isPartOfClique: the first outcome of canBeCombined(c, cc) that is not   *)
(* "true" ends the loop ("false", or an assertion's message).              *)
(***************************************************************************)
RECURSIVE isPartOfCliqueOutcome(_, _, _, _)
isPartOfCliqueOutcome(g, c, cl, k) ==
    IF k > Len(cl) THEN "true"
    ELSE LET r == canBeCombinedOutcome(g[c], g[cl[k]]) IN
         IF r # "true" THEN r ELSE isPartOfCliqueOutcome(g, c, cl, k + 1)

isPartOfClique(g, c, cl) == isPartOfCliqueOutcome(g, c, cl, 1)

(***************************************************************************)
(* getCliqueProperties (UnifyClasses.ts): for each field name of the       *)
(* clique, the ordered set of the non-null types the members give it and   *)
(* whether some member lacks it.                                           *)
(***************************************************************************)
OrderedUnion(s, t) == s \o SelectSeq(t, LAMBDA x : \A k \in 1..Len(s) : s[k] # x)

CliqueNames(members) == UNION {DOMAIN members[k].properties : k \in 1..Len(members)}

RECURSIVE CliqueTypes(_, _, _)
CliqueTypes(members, name, k) ==
    IF k = 0 THEN <<>>
    ELSE IF name \in DOMAIN members[k].properties
         THEN OrderedUnion(CliqueTypes(members, name, k - 1),
                           nonNullTypeCases(members[k].properties[name]))
    ELSE CliqueTypes(members, name, k - 1)

CliqueIsNullable(members, name) ==
    \E k \in 1..Len(members) : name \notin DOMAIN members[k].properties

(***************************************************************************)
(* makePropertyType.                                                       *)
(***************************************************************************)
\* l.mergeWith((a, b) => b, r): the plain merge, the right count wins.
mergeKeepRight(l, r) ==
    [k \in DOMAIN l \cup DOMAIN r |-> IF k \in DOMAIN r THEN r[k] ELSE l[k]]

\* l.mergeWith((a, b) => a + b, r)
mergeWithSum(l, r) ==
    [k \in DOMAIN l \cup DOMAIN r |->
        IF k \in DOMAIN l /\ k \in DOMAIN r THEN l[k] + r[k]
        ELSE IF k \in DOMAIN l THEN l[k]
        ELSE r[k]]

\* allEnumCases.reduce((l, r) => l.mergeWith(...)): no initial value, so the
\* first histogram starts the fold.
RECURSIVE reduceEnumCases(_, _)
reduceEnumCases(stringTypes, k) ==
    IF k = 1 THEN stringTypes[1].enumCases
    ELSE mergeWithSum(reduceEnumCases(stringTypes, k - 1), stringTypes[k].enumCases)

\* builder.makeNullable (TypeBuilder.ts): the union of the type and null.
makeNullable(t) == IF t.kind = "null" THEN <<t>> ELSE <<t, NullT>>

\* makePropertyType with the isNullable flag dropped.
makePropertyTypeNeverNullable(types, isNullable) ==
    [abort |-> FALSE, type |-> IF types = <<>> THEN <<NullT>> ELSE <<types[1]>>]

\* makePropertyType taking its first branch (the null primitive) for every
\* type set, empty or not.
makePropertyTypeAlwaysNull(types, isNullable) ==
    [abort |-> FALSE, type |-> <<NullT>>]

\* makePropertyType: [abort |-> the assertion failed, type |-> the result].
makePropertyType(types, isNullable) ==
    IF types # <<>> /\ IsStringType(types[1])
        /\ \E k \in 1..Len(types) : ~IsStringType(types[k])
    THEN [abort |-> TRUE, type |-> <<>>]
    ELSE LET resultType ==
                 IF types = <<>> THEN NullT
                 ELSE IF IsStringType(types[1])
                      THEN IF \A k \in 1..Len(types) : types[k].hasEnum
                           THEN StringType(reduceEnumCases(types, Len(types)))
                           ELSE types[1]
                 ELSE types[1]
         IN  [abort |-> FALSE,
              type |-> IF isNullable THEN makeNullable(resultType) ELSE <<resultType>>]

(***************************************************************************)
(* makeCliqueClass: the merged class of a clique (members: its classes).   *)
(***************************************************************************)
makeCliqueClass(members) ==
    LET made == [name \in CliqueNames(members) |->
                    makePropertyType(CliqueTypes(members, name, Len(members)),
                                     CliqueIsNullable(members, name))]
    IN  [abort |-> Len(members) = 0 \/ \E name \in DOMAIN made : made[name].abort,
         class |-> [properties |-> [name \in DOMAIN made |-> made[name].type],
                    isFixed |-> FALSE]]

CliqueMembers(g, cl) == [k \in 1..Len(cl) |-> g[cl[k]]]

(***************************************************************************)
(* graph.rewrite (TypeGraph.ts): each clique is replaced by its merged     *)
(* node; the classes outside every clique are carried over.  The merged    *)
(* nodes come first in the new graph, in the order of their cliques.       *)
(***************************************************************************)
InSomeClique(cls, n) == \E k \in 1..Len(cls) : \E j \in 1..Len(cls[k]) : cls[k][j] = n

MergedNodes(g, cls) == [k \in 1..Len(cls) |-> makeCliqueClass(CliqueMembers(g, cls[k]))]

Kept(g, cls) == SelectSeq([n \in 1..Len(g) |-> n], LAMBDA n : ~InSomeClique(cls, n))

Rewritten(g, cls) ==
    [k \in 1..Len(cls) |-> MergedNodes(g, cls)[k].class]
        \o [k \in 1..Len(Kept(g, cls)) |-> g[Kept(g, cls)[k]]]

RewriteAborts(g, cls) == \E k \in 1..Len(cls) : MergedNodes(g, cls)[k].abort

(***************************************************************************)
(* combineClasses, step by step.                                           *)
(***************************************************************************)
\* All classes of the graph, pinned ones included.
AllClasses(g) == [n \in 1..Len(g) |-> n]

\* lines 85-88: allNamedTypesSeparated().classes.filter(c => !c.isFixed).toArray()
NonFixedClasses(g) == SelectSeq([n \in 1..Len(g) |-> n], LAMBDA n : ~g[n].isFixed)

Collect ==
    /\ pc = "start"
    /\ unprocessedClasses' = NonFixedClasses(graph)
    /\ cliques' = <<>>
    /\ pc' = "while"
    /\ UNCHANGED <<graph, classesLeft, clique, i, run, old, result>>

\* The round with its for loop entered at i = 0, the seed itself.
BeginRoundAtSeed ==
    /\ pc = "while"
    /\ Len(unprocessedClasses) > 0
    /\ classesLeft' = <<>>
    /\ clique' = <<unprocessedClasses[1]>>
    /\ i' = 0
    /\ pc' = "for"
    /\ UNCHANGED <<graph, unprocessedClasses, cliques, run, old, result>>

BeginRound ==
    /\ pc = "while"
    /\ Len(unprocessedClasses) > 0
    /\ classesLeft' = <<>>
    /\ clique' = <<unprocessedClasses[1]>>
    /\ i' = 1
    /\ pc' = "for"
    /\ UNCHANGED <<graph, unprocessedClasses, cliques, run, old, result>>

ForBody ==
    /\ pc = "for"
    /\ i < Len(unprocessedClasses)
    /\ LET c == unprocessedClasses[i + 1]
           r == isPartOfClique(graph, c, clique)
       IN  /\ clique' = IF r = "true" THEN Append(clique, c) ELSE clique
           /\ classesLeft' = IF r = "false" THEN Append(classesLeft, c) ELSE classesLeft
           /\ pc' = IF r \in {"true", "false"} THEN "for" ELSE "aborted"
    /\ i' = i + 1
    /\ UNCHANGED <<graph, unprocessedClasses, cliques, run, old, result>>

EndRound ==
    /\ pc = "for"
    /\ i >= Len(unprocessedClasses)
    /\ cliques' = IF Len(clique) > 1 THEN Append(cliques, clique) ELSE cliques
    /\ unprocessedClasses' = classesLeft
    /\ pc' = "while"
    /\ UNCHANGED <<graph, classesLeft, clique, i, run, old, result>>

Rewrite ==
    /\ pc = "while"
    /\ Len(unprocessedClasses) = 0
    /\ old' = Append(old, [graph |-> graph, cliques |-> cliques])
    /\ IF RewriteAborts(graph, cliques)
       THEN pc' = "aborted" /\ graph' = graph
       ELSE pc' = "returned" /\ graph' = Rewritten(graph, cliques)
    /\ UNCHANGED <<unprocessedClasses, classesLeft, clique, cliques, i, run, result>>

\* The caller runs combineClasses again on the graph the first call returned.
CallAgain ==
    /\ pc = "returned"
    /\ run = 1
    /\ run' = 2
    /\ pc' = "start"
    /\ unprocessedClasses' = <<>>
    /\ classesLeft' = <<>>
    /\ clique' = <<>>
    /\ cliques' = <<>>
    /\ i' = 0
    /\ UNCHANGED <<graph, old, result>>

(***************************************************************************)
(* Input graphs: up to MaxClasses classes, each either a record of         *)
(* integer fields with at least three of the four names (pinned or not),   *)
(* or a record with the single field "a" of one of the types below.        *)
(***************************************************************************)
NameClasses ==
    {ClassOf(ns, <<IntT>>, f) : ns \in {S \in SUBSET Names : Cardinality(S) >= 3},
                                f \in BOOLEAN}

GraphFieldTypes ==
    {<<NullT>>, <<IntT>>, <<StrT>>, <<EnumRed>>, <<EnumBlueRed>>,
     <<NullT, IntT>>, <<StrT, IntT>>, <<IntT, StrT>>, <<EnumRed, EnumBlueRed>>}

TypeClasses == {ClassOf({"a"}, t, FALSE) : t \in GraphFieldTypes}

Graphs == UNION {[1..n -> NameClasses \cup TypeClasses] : n \in 0..MaxClasses}

Init ==
    /\ graph \in Graphs
    /\ unprocessedClasses = <<>>
    /\ classesLeft = <<>>
    /\ clique = <<>>
    /\ cliques = <<>>
    /\ i = 0
    /\ pc = "start"
    /\ run = 1
    /\ old = <<>>
    /\ result = NoCall

(***************************************************************************)
(* Input lists for the clique-building loop alone: up to MaxLoopClasses    *)
(* non-pinned classes, enough for several cliques in one call.             *)
(***************************************************************************)
LoopClasses ==
    {ClassOf({"a"}, t, FALSE) : t \in {<<NullT>>, <<IntT>>, <<StrT>>}}
        \cup {ClassOf(ns, <<IntT>>, FALSE) :
                ns \in {{"a", "b", "c"}, {"a", "b", "c", "d"}, {"a", "b", "d"}}}

LoopGraphs == UNION {[1..n -> LoopClasses] : n \in 0..MaxLoopClasses}

InitLoop ==
    /\ graph \in LoopGraphs
    /\ unprocessedClasses = <<>>
    /\ classesLeft = <<>>
    /\ clique = <<>>
    /\ cliques = <<>>
    /\ i = 0
    /\ pc = "start"
    /\ run = 1
    /\ old = <<>>
    /\ result = NoCall

Next ==
    \/ Collect
    \/ BeginRound
    \/ ForBody
    \/ EndRound
    \/ Rewrite
    \/ CallAgain

Spec == Init /\ [][Next]_vars

SpecLoop == InitLoop /\ [][Next]_vars

(***************************************************************************)
(* Properties.                                                             *)
(***************************************************************************)
NamesOf(c) == DOMAIN c.properties

LargerSize(c1, c2) ==
    IF Size(c1.properties) > Size(c2.properties)
    THEN Size(c1.properties) ELSE Size(c2.properties)

SmallerSize(c1, c2) ==
    IF Size(c1.properties) > Size(c2.properties)
    THEN Size(c2.properties) ELSE Size(c1.properties)

\* The completed calls of combineClasses and the cliques each handed to rewrite.
Calls == 1..Len(old)

CliquesOf(k) == 1..Len(old[k].cliques)

MembersOf(k, j) == CliqueMembers(old[k].graph, old[k].cliques[j])

TypesOf(k, j, name) == CliqueTypes(MembersOf(k, j), name, Len(MembersOf(k, j)))

MergedOf(k, j) == makeCliqueClass(MembersOf(k, j))

\* C1: canBeCombined is symmetric: canBeCombined(a, b) and canBeCombined(b, a)
\* return the same value for every pair of record types.
C1_Symmetric == pc = "called" => result.c1c2 = result.c2c1

\* C2: every clique the clique-building loop emits has at least 2 members and
\* every pair of distinct members x, y of it satisfies canBeCombined(x, y).
C2_TrueCliques ==
    pc = "while" =>
        \A k \in 1..Len(cliques) :
            /\ Len(cliques[k]) >= 2
            /\ \A x, y \in 1..Len(cliques[k]) :
                  x # y => canBeCombined(graph[cliques[k][x]], graph[cliques[k][y]])

\* C3: a pinned (isFixed) record type never appears in a clique passed to the
\* rewrite primitive, nor in one under construction.
C3_PinnedNeverInClique ==
    /\ \A k \in Calls : \A j \in CliquesOf(k) : \A m \in 1..Len(old[k].cliques[j]) :
          ~old[k].graph[old[k].cliques[j][m]].isFixed
    /\ pc \in {"while", "for"} =>
          /\ \A m \in 1..Len(clique) : ~graph[clique[m]].isFixed
          /\ \A j \in 1..Len(cliques) : \A m \in 1..Len(cliques[j]) :
                ~graph[cliques[j][m]].isFixed

\* C3 witness: a clique was passed to rewrite while the graph holds a pinned
\* class with the very field set of one of the clique's members.
C3_Witness ==
    /\ Len(old) >= 1
    /\ Len(old[1].cliques) >= 1
    /\ \E n \in 1..Len(old[1].graph) :
          /\ old[1].graph[n].isFixed
          /\ old[1].graph[n].properties
                = old[1].graph[old[1].cliques[1][1]].properties

\* C4: canBeCombined(a, b) returns true only if the field names of the smaller
\* record that are also in the larger one number at least
\* ceil(0.75 * larger.size); it returns false when the size gate fails or
\* when more than smaller.size - ceil(0.75 * larger.size) names are missing.
C4_OverlapRequired ==
    pc = "called" =>
        LET common == Cardinality(NamesOf(graph[1]) \cap NamesOf(graph[2]))
            large == LargerSize(graph[1], graph[2])
            small == SmallerSize(graph[1], graph[2])
            ceil == CHOOSE n \in 0..large : 4 * n >= 3 * large /\ 4 * (n - 1) < 3 * large
        IN  /\ result.c1c2 = "true" => common >= ceil
            /\ (4 * small < 3 * large \/ small - common > small - ceil)
                  => result.c1c2 = "false"

\* C4 witness: {a, b, c, d} against {b, c, d} passes the overlap test and is
\* combined; {a, b, c} against {a, b} is the rejected example.
C4_Witness ==
    /\ pc = "called"
    /\ NamesOf(graph[1]) = {"a", "b", "c", "d"}
    /\ NamesOf(graph[2]) = {"b", "c", "d"}
    /\ result.c1c2 = "true"

\* C5: the merged record type of a clique has exactly the union of its
\* members' field names, and a field absent from some member has a nullable
\* merged type whose non-null payload is the merged non-null type of the
\* members that have the field.
C5_MergedFields ==
    \A k \in Calls : \A j \in CliquesOf(k) :
        LET members == MembersOf(k, j)
            merged == MergedOf(k, j)
        IN  ~merged.abort =>
              /\ NamesOf(merged.class) = UNION {NamesOf(members[m]) : m \in 1..Len(members)}
              /\ \A name \in NamesOf(merged.class) :
                    (\E m \in 1..Len(members) : name \notin NamesOf(members[m])) =>
                        LET t == merged.class.properties[name]
                            types == TypesOf(k, j, name)
                        IN  /\ \E n \in 1..Len(t) : t[n].kind = "null"
                            /\ IF types = <<>> THEN nonNullTypeCases(t) = <<>>
                               ELSE /\ Len(nonNullTypeCases(t)) = 1
                                    /\ nonNullTypeCases(t)[1].kind = types[1].kind
                                    /\ Len(types) = 1 => nonNullTypeCases(t)[1] = types[1]

\* C5 witness: a merged class with a field that one member has (non-null) and
\* another member lacks.
C5_Witness ==
    \E k \in Calls : \E j \in CliquesOf(k) :
        /\ ~MergedOf(k, j).abort
        /\ \E name \in NamesOf(MergedOf(k, j).class) :
              /\ \E m \in 1..Len(MembersOf(k, j)) : name \notin NamesOf(MembersOf(k, j)[m])
              /\ TypesOf(k, j, name) # <<>>

RECURSIVE SumOfCounts(_, _, _)
SumOfCounts(types, literal, n) ==
    IF n = 0 THEN 0
    ELSE SumOfCounts(types, literal, n - 1)
            + (IF literal \in DOMAIN types[n].enumCases THEN types[n].enumCases[literal] ELSE 0)

AllEnumStrings(types) ==
    /\ types # <<>>
    /\ \A n \in 1..Len(types) : IsStringType(types[n]) /\ types[n].hasEnum

\* C6: when every type of a field's type set is a string type with an enum
\* histogram, the merged type is a string type whose histogram has exactly
\* the literals of all input histograms, each with the sum of its counts.
C6_EnumCountsAdd ==
    \A k \in Calls : \A j \in CliquesOf(k) :
        \A name \in CliqueNames(MembersOf(k, j)) :
            LET types == TypesOf(k, j, name)
                made == makePropertyType(types, FALSE)
            IN  AllEnumStrings(types) =>
                  /\ ~made.abort
                  /\ Len(made.type) = 1
                  /\ IsStringType(made.type[1])
                  /\ made.type[1].hasEnum
                  /\ DOMAIN made.type[1].enumCases
                        = UNION {DOMAIN types[n].enumCases : n \in 1..Len(types)}
                  /\ \A literal \in DOMAIN made.type[1].enumCases :
                        made.type[1].enumCases[literal]
                            = SumOfCounts(types, literal, Len(types))

\* C6 witness: {red: 2} and {blue: 5, red: 1} were merged to {red: 3, blue: 5}
\* in a class the first call returned.
C6_Witness ==
    /\ Len(old) >= 1
    /\ pc = "returned"
    /\ \E n \in 1..Len(graph) :
          /\ "a" \in NamesOf(graph[n])
          /\ graph[n].properties["a"] = <<StringType("red" :> 3 @@ "blue" :> 5)>>

\* The nodes of the second call's input that the first call created.
MergedNodesOfFirstCall == 1..Len(old[1].cliques)

SecondCallCliquesAMergedNode ==
    \E j \in CliquesOf(2) : \E m \in 1..Len(old[2].cliques[j]) :
        old[2].cliques[j][m] \in MergedNodesOfFirstCall

SameFieldNames(g) ==
    \A m, n \in 1..Len(g) :
        (~g[m].isFixed /\ ~g[n].isFixed) => NamesOf(g[m]) = NamesOf(g[n])

NoProperUnions(g) ==
    \A n \in 1..Len(g) : \A name \in NamesOf(g[n]) :
        Len(nonNullTypeCases(g[n].properties[name])) <= 1

C8_NoStringMixing ==
    \A k \in Calls : \A j \in CliquesOf(k) :
        \A name \in CliqueNames(MembersOf(k, j)) :
            LET types == TypesOf(k, j, name)
            IN  (types # <<>> /\ IsStringType(types[1]))
                    => \A n \in 1..Len(types) : IsStringType(types[n])

\* C9: the assertion maxFaults >= 0 never fails: whenever neither size is
\* below 0.75 times the other, smaller.size - ceil(0.75 * larger.size) >= 0.
C9_MaxFaultsNotNegative ==
    pc = "called" =>
        /\ result.c1c2 # "Max faults negative"
        /\ result.c2c1 # "Max faults negative"
        /\ (4 * SmallerSize(graph[1], graph[2]) >= 3 * LargerSize(graph[1], graph[2]))
              => result.c1c2 \in {"true", "false"}

\* C9 witness: two records with zero fields are combined.
C9_Witness ==
    /\ pc = "called"
    /\ NamesOf(graph[1]) = {}
    /\ NamesOf(graph[2]) = {}
    /\ result.c1c2 = "true"

Range(s) == {s[k] : k \in 1..Len(s)}

NoDuplicates(s) == \A m, n \in 1..Len(s) : m # n => s[m] # s[n]

\* Each remaining class examined so far is in the clique or in the leftover
\* list, never both; the clique and the leftover list hold nothing else.
C10_RoundPartition ==
    pc = "for" =>
        /\ NoDuplicates(clique \o classesLeft)
        /\ Range(clique \o classesLeft)
              = {unprocessedClasses[n] : n \in 1..i}
        /\ Len(classesLeft) < Len(unprocessedClasses)

C10_CliquesDisjoint ==
    pc \in {"while", "for"} =>
        /\ \A j \in 1..Len(cliques) : NoDuplicates(cliques[j])
        /\ \A j, k \in 1..Len(cliques) :
              j # k => Range(cliques[j]) \cap Range(cliques[k]) = {}
        /\ \A j \in 1..Len(cliques) : Range(cliques[j]) \cap Range(unprocessedClasses) = {}

\* The steps the clique-building loop still takes at most, from a state with
\* n classes remaining at the loop's head.
RECURSIVE StepsFromHead(_)
StepsFromHead(n) == IF n = 0 THEN 0 ELSE StepsFromHead(n - 1) + n + 1

C10_Variant ==
    CASE pc = "while" -> StepsFromHead(Len(unprocessedClasses))
      [] pc = "for" -> StepsFromHead(Len(unprocessedClasses) - 1)
                          + 1 + (Len(unprocessedClasses) - i)
      [] OTHER -> 0

\* C10: the clique-building loop terminates and its cliques are pairwise
\* disjoint: in each round every remaining class goes into the clique or the
\* leftover list (never both, never neither), the remaining list strictly
\* shrinks each round, and every step of the loop decreases a natural-number
\* variant.
C10_LoopTerminatesDisjoint ==
    /\ [](C10_RoundPartition /\ C10_CliquesDisjoint /\ C10_Variant >= 0)
    /\ [][(pc \in {"while", "for"} /\ pc' \in {"while", "for"})
            => C10_Variant' < C10_Variant]_vars
    /\ [][(pc = "for" /\ pc' = "while")
            => Len(unprocessedClasses') < Len(unprocessedClasses)]_vars

\* C10 witness: two disjoint cliques were emitted.
C10_Witness ==
    /\ pc = "while"
    /\ Len(unprocessedClasses) = 0
    /\ Len(cliques) = 2

====
